---- MODULE Spec2Model ----
(***************************************************************************)
(* The TextInput control of native-windows-gui                             *)
(* (src/native-windows-gui/src/controls/text_input.rs): the object's       *)
(* handle and handler0 fields, TextInputBuilder::build, Drop, and the raw  *)
(* event handler bound by hook_non_client_size, which centres the text     *)
(* vertically by handling WM_NCCALCSIZE, WM_NCPAINT and WM_SIZE.           *)
(*                                                                         *)
(* One TextInput object is modelled.  The window-manager side of each call *)
(* the handler makes (GetDC, GetWindowRect, ScreenToClient, SetWindowPos,  *)
(* FillRect, ...) is modelled at the call site, with the documented Win32  *)
(* behaviour of that call.  Only the vertical axis is carried: every       *)
(* rectangle the handler writes has left = 0 / right = client.right or is  *)
(* left untouched horizontally.                                            *)
(*                                                                         *)
(* Handlers run on one thread, nested synchronously: `stack` is the call   *)
(* stack of the message dispatch, the last element being the running       *)
(* frame.  A frame is either a window-manager frame (k = "pos": a window   *)
(* position update in progress) or an invocation of the hook closure       *)
(* (k = "hook").                                                           *)
(***************************************************************************)
EXTENDS Integers, Sequences, FiniteSets

(* ---------------------------- bounds ---------------------------------- *)
MaxBuilds == 2
MaxHeight == 11
MaxLineH == 2
MaxTop == 1
MaxDcFail == 1
MaxUninstall == 2

(* ------------------------ program constants --------------------------- *)
\* winuser COLOR_WINDOW, cast to a brush handle when no colour is given
COLOR_WINDOW == 5
\* the empirical correction subtracted from the centre offset
BorderCorrection == 4
\* WS_BORDER is a forced flag: the default size calculation that runs after
\* the hook insets the client rectangle by the one-unit border on each side
BorderWidth == 1

None == <<>>
Colours == {<<255, 128, 0>>}
\* window heights tried: none at all, and those around the point where the
\* centre offset changes sign
Heights == {0} \cup (2 * BorderCorrection)..MaxHeight
LineHeights == 1..MaxLineH
Windows == 1..MaxBuilds

VARIABLES
    handle,      \* TextInput.handle: 0 is the blank handle, else a window id
    handler0,    \* TextInput.handler0: None or <<registration id>>
    dropped,     \* the object has been torn down
    nBuilt,      \* windows created so far (the next window id is nBuilt + 1)
    live,        \* windows that exist
    bound,       \* hook registrations in place (one per window id)
    nDestroyed,  \* per window: times it was destroyed
    nUnbound,    \* per registration: times its callback was removed
    faulted,     \* a teardown step faulted
    bg,          \* the background argument of the hook installed last
    brush,       \* the brush captured by that hook's closure
    wTop,        \* window rectangle, screen rows [wTop, wBottom)
    wBottom,
    cTop,        \* client rectangle, screen rows [cTop, cBottom)
    cBottom,
    laid,        \* how the client rectangle in effect was computed
    lineH,       \* line height DrawTextW reports for the control's font
    stack,       \* the dispatch call stack
    dcOut,       \* device contexts acquired and not yet released
    dcFails,     \* failed GetDC calls so far
    owed,        \* notifications not yet seen since the last WM_SIZE
    uninstalls   \* uninstall steps performed on the object

vars == <<handle, handler0, dropped, nBuilt, live, bound, nDestroyed, nUnbound,
          faulted, bg, brush, wTop, wBottom, cTop, cBottom, laid,
          lineH, stack, dcOut, dcFails, owed, uninstalls>>

objVars == <<handle, handler0, dropped, nBuilt, live, bound, nDestroyed,
             nUnbound, faulted, bg, brush>>
geoVars == <<wTop, wBottom, cTop, cBottom, laid>>

(* ------------------------- pure helpers ------------------------------- *)
\* Rust's i32 division truncates toward zero
TruncDiv(a, b) == IF a >= 0 THEN a \div b ELSE -((-a) \div b)

Max(a, b) == IF a >= b THEN a ELSE b

\* winapi RGB macro: a COLORREF
RGB(c) == c[1] + c[2] * 256 + c[3] * 65536

\* let brush = match bg { Some(c) => CreateSolidBrush(RGB(..)), None => COLOR_WINDOW as HBRUSH }
MakeBrush(b) ==
    IF b = None THEN [solid |-> FALSE, value |-> COLOR_WINDOW]
    ELSE [solid |-> TRUE, value |-> RGB(b)]

\* FillRect's reading of its brush argument: a solid brush paints its
\* COLORREF; a small integer passed as the handle is a system colour index
\* plus one
FillColour(br) ==
    IF br.solid THEN [sys |-> FALSE, value |-> br.value]
    ELSE [sys |-> TRUE, value |-> br.value - 1]

\* The default size calculation applied to the rectangle the hook returns
\* (the hook returns None, so default processing continues): the border is
\* taken off each side; a rectangle too small for it is left empty.
DefaultClient(top, bottom) ==
    [top |-> top + BorderWidth,
     bottom |-> Max(top + BorderWidth, bottom - BorderWidth)]

\* ScreenToClient on the y coordinate
ScreenToClientY(y) == y - cTop

\* rows a FillRect of [top, bottom) covers, in client coordinates
Rows(r) == {y \in (r.top)..(r.bottom - 1) : TRUE}

Idle == stack = <<>>
Built == handle # 0 /\ ~dropped
Top == stack[Len(stack)]
Pop == SubSeq(stack, 1, Len(stack) - 1)
SetTop(f) == [stack EXCEPT ![Len(stack)] = f]
Push(f, g) == Append(SetTop(f), g)

\* what a size calculation hands to the position update: whether the hook
\* adjusted rgrc[0], and the window height, line height and centre it used
NoCalc == [hook |-> FALSE, center |-> 0, wh |-> 0, ch |-> 0]

(* ----------------------------- Init ----------------------------------- *)
\* #[derive(Default)] TextInput: blank handle, no handler
Init ==
    /\ handle = 0
    /\ handler0 = None
    /\ dropped = FALSE
    /\ nBuilt = 0
    /\ live = {}
    /\ bound = {}
    /\ nDestroyed = [i \in Windows |-> 0]
    /\ nUnbound = [i \in Windows |-> 0]
    /\ faulted = FALSE
    /\ bg = None
    /\ brush = MakeBrush(None)
    /\ wTop = 0
    /\ wBottom = 0
    /\ cTop = 0
    /\ cBottom = 0
    /\ laid = NoCalc
    /\ lineH = 1
    /\ stack = <<>>
    /\ dcOut = 0
    /\ dcFails = 0
    /\ owed = {}
    /\ uninstalls = 0

(* ---------------------- build and teardown ---------------------------- *)
\* TextInputBuilder::build without a parent: Err(NwgError::no_parent) before
\* anything is created
BuildNoParent ==
    /\ Idle /\ ~dropped
    /\ UNCHANGED vars

\* TextInputBuilder::build with a parent: the window is created (default
\* layout, the hook is not bound yet), out.handle is overwritten, the hook
\* is bound to the new window and handler0 overwritten, the font is set.
\* Neither assignment destroys or unbinds what the field held before.
Build(top, height, colour, font) ==
    /\ Idle /\ ~dropped
    /\ nBuilt < MaxBuilds
    /\ LET id == nBuilt + 1
           c == DefaultClient(top, top + height)
       IN /\ nBuilt' = id
          /\ live' = live \cup {id}
          /\ handle' = id
          /\ bound' = bound \cup {id}
          /\ handler0' = <<id>>
          /\ bg' = colour
          /\ brush' = MakeBrush(colour)
          /\ wTop' = top
          /\ wBottom' = top + height
          /\ cTop' = c.top
          /\ cBottom' = c.bottom
          /\ laid' = NoCalc
          /\ lineH' = font
    /\ UNCHANGED <<dropped, nDestroyed, nUnbound, faulted, stack, dcOut,
                   dcFails, owed, uninstalls>>


\* unbind_raw_event_handler: removes the callback of a registration; an
\* absent registration is a no-op
UnbindRawEventHandler(reg, b, n) ==
    IF reg \in b
    THEN [bound |-> b \ {reg}, nUnbound |-> [n EXCEPT ![reg] = @ + 1]]
    ELSE [bound |-> b, nUnbound |-> n]

\* ControlHandle::destroy: destroys the window of a bound handle; a blank
\* or already destroyed handle is a no-op
DestroyHandle(h, l, n) ==
    IF h \in l
    THEN [live |-> l \ {h}, nDestroyed |-> [n EXCEPT ![h] = @ + 1]]
    ELSE [live |-> l, nDestroyed |-> n]

\* a teardown that unwraps handler0 without looking at it
UninstallUnchecked(h0, b, n) ==
    IF h0 = None
    THEN [bound |-> b, nUnbound |-> n, fault |-> TRUE]
    ELSE [bound |-> UnbindRawEventHandler(h0[1], b, n).bound,
          nUnbound |-> UnbindRawEventHandler(h0[1], b, n).nUnbound,
          fault |-> FALSE]

\* Drop: if let Some(h) = handler.as_ref() { unbind_raw_event_handler(h); }
UninstallStep(h0, b, n) ==
    IF h0 = None
    THEN [bound |-> b, nUnbound |-> n, fault |-> FALSE]
    ELSE [bound |-> UnbindRawEventHandler(h0[1], b, n).bound,
          nUnbound |-> UnbindRawEventHandler(h0[1], b, n).nUnbound,
          fault |-> FALSE]

\* impl Drop for TextInput: the uninstall step, then self.handle.destroy().
\* handler0 and handle keep their values.
Drop ==
    /\ Idle /\ ~dropped
    /\ LET u == UninstallStep(handler0, bound, nUnbound)
           d == DestroyHandle(handle, live, nDestroyed)
       IN /\ bound' = u.bound
          /\ nUnbound' = u.nUnbound
          /\ faulted' = (faulted \/ u.fault)
          /\ live' = d.live
          /\ nDestroyed' = d.nDestroyed
    /\ dropped' = TRUE
    /\ uninstalls' = uninstalls + 1
    /\ UNCHANGED <<handle, handler0, nBuilt, bg, brush, geoVars,
                   lineH, stack, dcOut, dcFails, owed>>

\* the uninstall step of Drop performed again on the torn-down object
UninstallAgain ==
    /\ Idle /\ dropped
    /\ uninstalls < MaxUninstall
    /\ LET u == UninstallStep(handler0, bound, nUnbound)
       IN /\ bound' = u.bound
          /\ nUnbound' = u.nUnbound
          /\ faulted' = (faulted \/ u.fault)
    /\ uninstalls' = uninstalls + 1
    /\ UNCHANGED <<handle, handler0, dropped, nBuilt, live, nDestroyed,
                   bg, brush, geoVars, lineH, stack, dcOut, dcFails, owed>>

(* ------------------ property accessors that matter -------------------- *)
\* TextInput::set_size: a window position update to the new size.  The
\* window manager sends WM_NCCALCSIZE for the proposed rectangle before the
\* window rectangle changes.
SetSize(height) ==
    /\ Idle /\ Built
    /\ height # wBottom - wTop
    /\ stack' = <<[k |-> "pos", pc |-> "calc", w |-> 1, by |-> "set_size",
                   pTop |-> wTop, pBot |-> wTop + height,
                   rgTop |-> wTop, rgBot |-> wTop + height,
                   calc |-> NoCalc,
                   changed |-> FALSE]>>
    /\ UNCHANGED <<objVars, uninstalls, geoVars, lineH, dcOut, dcFails, owed>>

\* TextInput::set_font: WM_SETFONT, which is not one of the hooked messages
SetFont(font) ==
    /\ Idle /\ Built
    /\ font # lineH
    /\ lineH' = font
    /\ UNCHANGED <<objVars, uninstalls, geoVars, stack, dcOut, dcFails, owed>>

(* --------------------- notifications from the host -------------------- *)
\* The host recomputes the frame of the control at its current rectangle
\* and sends WM_NCCALCSIZE with the given wParam.
WmNcCalcSize(w) ==
    /\ Idle /\ Built
    /\ stack' = <<[k |-> "pos", pc |-> "calc", w |-> w, by |-> "host",
                   pTop |-> wTop, pBot |-> wBottom,
                   rgTop |-> wTop, rgBot |-> wBottom,
                   calc |-> NoCalc,
                   changed |-> FALSE]>>
    /\ UNCHANGED <<objVars, uninstalls, geoVars, lineH, dcOut, dcFails, owed>>

\* a fresh invocation of the hook closure for msg
HookFrame(msg, w, top, bottom) ==
    [k |-> "hook", msg |-> msg, pc |-> "entry", w |-> w,
     pTop |-> top, pBot |-> bottom, rgTop |-> top, rgBot |-> bottom,
     wh |-> 0, ch |-> 0, center |-> 0, adjusted |-> FALSE,
     dc |-> "none", sel |-> FALSE, gets |-> 0,
     top |-> [top |-> 0, bottom |-> 0], bottom |-> [top |-> 0, bottom |-> 0],
     attempted |-> FALSE, filled |-> FALSE,
     colour |-> [sys |-> FALSE, value |-> 0],
     ret |-> "running"]

\* The host sends WM_NCPAINT (the frame needs repainting).
WmNcPaint ==
    /\ Idle /\ Built
    /\ stack' = <<HookFrame("WM_NCPAINT", 0, wTop, wBottom)>>
    /\ owed' = owed \ {"paint"}
    /\ UNCHANGED <<objVars, uninstalls, geoVars, lineH, dcOut, dcFails>>


(* ------------------- the host's position update ----------------------- *)
\* WM_NCCALCSIZE is sent with the proposed rectangle in rgrc[0]; the window
\* rectangle is still the one from before the update.
PosSendCalc ==
    /\ ~Idle /\ Top.k = "pos" /\ Top.pc = "calc"
    /\ stack' = Push([Top EXCEPT !.pc = "commit"],
                     HookFrame("WM_NCCALCSIZE", Top.w, Top.pTop, Top.pBot))
    /\ owed' = owed \ {"calc"}
    /\ UNCHANGED <<objVars, uninstalls, geoVars, lineH, dcOut, dcFails>>

\* The rectangles take effect: the window rectangle becomes the proposed
\* one, the client rectangle what default processing makes of rgrc[0].
PosCommit ==
    /\ ~Idle /\ Top.k = "pos" /\ Top.pc = "commit"
    /\ LET c == DefaultClient(Top.rgTop, Top.rgBot)
       IN /\ wTop' = Top.pTop
          /\ wBottom' = Top.pBot
          /\ cTop' = c.top
          /\ cBottom' = c.bottom
          /\ laid' = Top.calc
          /\ stack' = SetTop([Top EXCEPT
                 !.pc = "paint",
                 !.changed = (c.bottom - c.top # cBottom - cTop)])
    /\ UNCHANGED <<objVars, uninstalls, lineH, dcOut, dcFails, owed>>

\* The frame is repainted: WM_NCPAINT.
PosSendPaint ==
    /\ ~Idle /\ Top.k = "pos" /\ Top.pc = "paint"
    /\ stack' = Push([Top EXCEPT !.pc = "size"],
                     HookFrame("WM_NCPAINT", 0, wTop, wBottom))
    /\ owed' = owed \ {"paint"}
    /\ UNCHANGED <<objVars, uninstalls, geoVars, lineH, dcOut, dcFails>>

\* WM_SIZE is sent when the size of the client area changed.
PosSendSize ==
    /\ ~Idle /\ Top.k = "pos" /\ Top.pc = "size" /\ Top.changed
    /\ stack' = Push([Top EXCEPT !.pc = "done"],
                     HookFrame("WM_SIZE", 0, wTop, wBottom))
    /\ owed' = {"calc", "paint"}
    /\ UNCHANGED <<objVars, uninstalls, geoVars, lineH, dcOut, dcFails>>

PosFinished(f) == f.pc = "done" \/ (f.pc = "size" /\ ~f.changed)

\* The position update returns to its caller.
PosReturn ==
    /\ ~Idle /\ Top.k = "pos" /\ PosFinished(Top)
    /\ stack' = Pop
    /\ UNCHANGED <<objVars, uninstalls, geoVars, lineH, dcOut, dcFails, owed>>

(* --------------------- the hook closure: WM_NCCALCSIZE ---------------- *)
\* GetDC may fail (NULL); the number of failures is bounded
DcOutcomes == IF dcFails < MaxDcFail THEN {TRUE, FALSE} ELSE {TRUE}

\* a closure that measures whatever wParam says
NoGuard(w) == FALSE

\* if w == 0 { return None }
NcCalcSkips(w) == w = 0

NcCalcGuard ==
    /\ ~Idle /\ Top.k = "hook" /\ Top.msg = "WM_NCCALCSIZE" /\ Top.pc = "entry"
    /\ NcCalcSkips(Top.w)
    /\ stack' = SetTop([Top EXCEPT !.pc = "ret", !.ret = "None"])
    /\ UNCHANGED <<objVars, uninstalls, geoVars, lineH, dcOut, dcFails, owed>>

\* DrawTextW(dc, "Ky", DT_CALCRECT) into a zeroed RECT: r.bottom is the line
\* height of the font selected into dc; with a NULL dc the call fails and r
\* stays zeroed
MeasuredHeight(ok) == IF ok THEN lineH ELSE 0

\* get_window_font, GetDC, SelectObject, DrawTextW, client_height = r.bottom
NcCalcMeasure ==
    /\ ~Idle /\ Top.k = "hook" /\ Top.msg = "WM_NCCALCSIZE" /\ Top.pc = "entry"
    /\ ~NcCalcSkips(Top.w)
    /\ \E ok \in DcOutcomes :
          /\ stack' = SetTop([Top EXCEPT
                 !.pc = "measured",
                 !.dc = IF ok THEN "held" ELSE "null",
                 !.gets = @ + 1,
                 !.sel = ok,
                 !.ch = MeasuredHeight(ok)])
          /\ dcOut' = IF ok THEN dcOut + 1 ELSE dcOut
          /\ dcFails' = IF ok THEN dcFails ELSE dcFails + 1
    /\ UNCHANGED <<objVars, uninstalls, geoVars, lineH, owed>>

\* a handler that forgets ReleaseDC
LeakDC(n, dc) == n

\* ReleaseDC(hwnd, dc): a held context is given back; NULL is refused
ReleaseDC(n, dc) == IF dc = "held" THEN n - 1 ELSE n

\* SelectObject(dc, old): the font the context came with is put back
NcCalcRestore ==
    /\ ~Idle /\ Top.k = "hook" /\ Top.msg = "WM_NCCALCSIZE" /\ Top.pc = "measured"
    /\ stack' = SetTop([Top EXCEPT !.pc = "restored", !.sel = FALSE])
    /\ UNCHANGED <<objVars, uninstalls, geoVars, lineH, dcOut, dcFails, owed>>

\* ReleaseDC(hwnd, dc);
NcCalcRelease ==
    /\ ~Idle /\ Top.k = "hook" /\ Top.msg = "WM_NCCALCSIZE" /\ Top.pc = "restored"
    /\ dcOut' = ReleaseDC(dcOut, Top.dc)
    /\ stack' = SetTop([Top EXCEPT
           !.pc = "adjust",
           !.dc = IF Top.dc = "held" THEN "released" ELSE Top.dc])
    /\ UNCHANGED <<objVars, uninstalls, geoVars, lineH, dcFails, owed>>

\* a height taken from the client rectangle instead of the window rectangle
ClientHeightInstead == cBottom - cTop

\* GetWindowRect(hwnd, &mut window); window_height = window.bottom - window.top
WindowHeight == wBottom - wTop

\* a centre offset that halves the window height alone
CenterHalfWindow(window_height, client_height) ==
    TruncDiv(window_height, 2) - client_height - BorderCorrection

\* let center = ((window_height - client_height) / 2) - 4;
Center(window_height, client_height) ==
    TruncDiv(window_height - client_height, 2) - BorderCorrection

\* GetClientRect, GetWindowRect, window_height, center,
\* info.rgrc[0].top += center; info.rgrc[0].bottom -= center;
NcCalcAdjust ==
    /\ ~Idle /\ Top.k = "hook" /\ Top.msg = "WM_NCCALCSIZE" /\ Top.pc = "adjust"
    /\ LET window_height == WindowHeight
           center == Center(window_height, Top.ch)
       IN stack' = SetTop([Top EXCEPT
              !.pc = "ret",
              !.ret = "None",
              !.wh = window_height,
              !.center = center,
              !.adjusted = TRUE,
              !.rgTop = @ + center,
              !.rgBot = @ - center])
    /\ UNCHANGED <<objVars, uninstalls, geoVars, lineH, dcOut, dcFails, owed>>


(* ----------------------- the hook closure: WM_NCPAINT ----------------- *)
\* GetClientRect: the client rectangle in client coordinates
ClientRect == [top |-> 0, bottom |-> cBottom - cTop]

\* GetWindowRect: the window rectangle in screen coordinates
WindowRect == [top |-> wTop, bottom |-> wBottom]

\* a top strip built from the window top without ScreenToClient
TopStripUnconverted(window, client, pt1y) ==
    [top |-> window.top, bottom |-> client.top]

\* let top = RECT { left: 0, top: pt1.y, right: client.right, bottom: client.top };
TopStrip(window, client, pt1y) == [top |-> pt1y, bottom |-> client.top]

\* let bottom = RECT { left: 0, top: client.bottom, right: client.right, bottom: pt2.y };
BottomStrip(window, client, pt2y) == [top |-> client.bottom, bottom |-> pt2y]

\* GetWindowRect, GetClientRect, ScreenToClient of both corners, the two
\* strips, GetDC
NcPaintRects ==
    /\ ~Idle /\ Top.k = "hook" /\ Top.msg = "WM_NCPAINT" /\ Top.pc = "entry"
    /\ \E ok \in DcOutcomes :
          /\ stack' = SetTop([Top EXCEPT
                 !.pc = "fill",
                 !.top = TopStrip(WindowRect, ClientRect, ScreenToClientY(wTop)),
                 !.bottom = BottomStrip(WindowRect, ClientRect,
                                        ScreenToClientY(wBottom)),
                 !.dc = IF ok THEN "held" ELSE "null",
                 !.gets = @ + 1])
          /\ dcOut' = IF ok THEN dcOut + 1 ELSE dcOut
          /\ dcFails' = IF ok THEN dcFails ELSE dcFails + 1
    /\ UNCHANGED <<objVars, uninstalls, geoVars, lineH, owed>>

\* FillRect(dc, &top, brush); FillRect(dc, &bottom, brush);  The calls are
\* made whatever GetDC returned; with a NULL dc nothing is painted.
NcPaintFill ==
    /\ ~Idle /\ Top.k = "hook" /\ Top.msg = "WM_NCPAINT" /\ Top.pc = "fill"
    /\ stack' = SetTop([Top EXCEPT
           !.pc = "release",
           !.attempted = TRUE,
           !.filled = (Top.dc = "held"),
           !.colour = FillColour(brush)])
    /\ UNCHANGED <<objVars, uninstalls, geoVars, lineH, dcOut, dcFails, owed>>

\* ReleaseDC(hwnd, dc);
NcPaintRelease ==
    /\ ~Idle /\ Top.k = "hook" /\ Top.msg = "WM_NCPAINT" /\ Top.pc = "release"
    /\ dcOut' = ReleaseDC(dcOut, Top.dc)
    /\ stack' = SetTop([Top EXCEPT
           !.pc = "ret",
           !.ret = "None",
           !.dc = IF Top.dc = "held" THEN "released" ELSE Top.dc])
    /\ UNCHANGED <<objVars, uninstalls, geoVars, lineH, dcFails, owed>>

(* ------------------------ the hook closure: WM_SIZE ------------------- *)
\* the frames of a WM_SIZE arm that returns without SetWindowPos
SizeNoFrameChange(f) == SetTop([f EXCEPT !.pc = "ret", !.ret = "None"])

\* SetWindowPos(hwnd, null, 0, 0, 0, 0, SWP_NOOWNERZORDER | SWP_NOSIZE |
\* SWP_NOMOVE | SWP_FRAMECHANGED): a position update at the current
\* rectangle, entered before the arm returns
SizeFrameChange(f) ==
    Push([f EXCEPT !.pc = "ret", !.ret = "None"],
         [k |-> "pos", pc |-> "calc", w |-> 1, by |-> "WM_SIZE",
          pTop |-> wTop, pBot |-> wBottom,
          rgTop |-> wTop, rgBot |-> wBottom,
          calc |-> NoCalc,
          changed |-> FALSE])

SizeSetWindowPos ==
    /\ ~Idle /\ Top.k = "hook" /\ Top.msg = "WM_SIZE" /\ Top.pc = "entry"
    /\ stack' = SizeFrameChange(Top)
    /\ UNCHANGED <<objVars, uninstalls, geoVars, lineH, dcOut, dcFails, owed>>

(* -------------------------- the closure returns ----------------------- *)
\* The closure returns None; what it wrote through lParam stays in the
\* NCCALCSIZE_PARAMS of the caller.
HookReturn ==
    /\ ~Idle /\ Top.k = "hook" /\ Top.pc = "ret"
    /\ stack' = IF Top.msg = "WM_NCCALCSIZE" /\ Len(stack) > 1
                THEN [Pop EXCEPT ![Len(stack) - 1] =
                         [@ EXCEPT !.rgTop = Top.rgTop,
                                   !.rgBot = Top.rgBot,
                                   !.calc = [hook |-> Top.adjusted,
                                             center |-> Top.center,
                                             wh |-> Top.wh,
                                             ch |-> Top.ch]]]
                ELSE Pop
    /\ UNCHANGED <<objVars, uninstalls, geoVars, lineH, dcOut, dcFails, owed>>

(* --------------------------- specification ---------------------------- *)
\* the steps of a dispatch in progress
Step ==
    \/ PosSendCalc
    \/ PosCommit
    \/ PosSendPaint
    \/ PosSendSize
    \/ PosReturn
    \/ NcCalcGuard
    \/ NcCalcMeasure
    \/ NcCalcRestore
    \/ NcCalcRelease
    \/ NcCalcAdjust
    \/ NcPaintRects
    \/ NcPaintFill
    \/ NcPaintRelease
    \/ SizeSetWindowPos
    \/ HookReturn

Next ==
    \/ BuildNoParent
    \/ \E top \in 1..MaxTop, height \in Heights,
          colour \in {None} \cup Colours, font \in LineHeights :
          Build(top, height, colour, font)
    \/ Drop
    \/ UninstallAgain
    \/ \E height \in Heights : SetSize(height)
    \/ \E font \in LineHeights : SetFont(font)
    \/ \E w \in {0, 1} : WmNcCalcSize(w)
    \/ WmNcPaint
    \/ Step

Spec == Init /\ [][Next]_vars

\* A dispatch in progress runs to its end: the handlers do not block.
FairSpec == Spec /\ WF_vars(Step)

(* ------------------------------ claims -------------------------------- *)
Frames == {stack[i] : i \in 1..Len(stack)}
CalcFrames == {f \in Frames : f.k = "hook" /\ f.msg = "WM_NCCALCSIZE"}
PaintFrames == {f \in Frames : f.k = "hook" /\ f.msg = "WM_NCPAINT"}
SizeFrames == {f \in Frames : f.k = "hook" /\ f.msg = "WM_SIZE"}

\* C1: in every WM_NCCALCSIZE execution that adjusts (wParam set) with a
\* window height W = window.bottom - window.top of at least the font's line
\* height h, the centre offset is ((W - h) / 2) - 4 when h was measured, it
\* is >= 0 whenever W >= h + 8, and rgrc[0].top has grown by exactly the
\* centre offset by which rgrc[0].bottom has shrunk.
C1_CenterOffset ==
    \A f \in CalcFrames :
        (f.adjusted /\ f.wh >= lineH) =>
            /\ f.dc = "released" =>
                   f.center = TruncDiv(f.wh - lineH, 2) - BorderCorrection
            /\ f.wh >= lineH + 2 * BorderCorrection => f.center >= 0
            /\ f.rgTop - f.pTop = f.center
            /\ f.pBot - f.rgBot = f.center

C1_Witness ==
    \E f \in CalcFrames :
        /\ f.adjusted /\ f.dc = "released"
        /\ f.wh >= lineH + 2 * BorderCorrection
        /\ f.center > 0
        /\ f.rgTop = f.pTop + f.center

\* the screen rows a strip painted in client coordinates covers
ScreenRows(r) == {y + cTop : y \in Rows(r)}

\* the layout in effect was computed by the hook for the current window
\* height and font
LaidForCurrent ==
    laid.hook /\ laid.wh = wBottom - wTop /\ laid.ch = lineH

\* C2: when WM_NCPAINT runs on a layout the size calculation made for the
\* same window geometry and font, the top strip it fills covers exactly the
\* rows between the window top and the client top: the rows the size
\* calculation took off the client rectangle (the centre offset, and the
\* border row default processing takes with it), none of the client area
\* and none left out.
C2_TopStripMatchesLayout ==
    \A f \in PaintFrames :
        (f.pc \in {"fill", "release", "ret"} /\ LaidForCurrent) =>
            /\ ScreenRows(f.top) = wTop..(cTop - 1)
            /\ ScreenRows(f.top) \cap cTop..(cBottom - 1) = {}
            /\ Cardinality(ScreenRows(f.top)) =
                   Max(0, Center(wBottom - wTop, lineH) + BorderWidth)

C2_Witness ==
    \E f \in PaintFrames :
        /\ f.filled /\ LaidForCurrent
        /\ Cardinality(ScreenRows(f.top)) >= 2
        /\ ScreenRows(f.top) = wTop..(cTop - 1)

\* C3: a WM_NCCALCSIZE with wParam = 0 does nothing: the closure goes from
\* its entry straight to its return, the rectangle of the notification is
\* the one that came in, no device context was asked for, and the result
\* is None (unhandled).
C3_GuardBypass ==
    \A f \in CalcFrames :
        f.w = 0 =>
            /\ f.pc \in {"entry", "ret"}
            /\ f.rgTop = f.pTop /\ f.rgBot = f.pBot
            /\ f.gets = 0 /\ f.dc = "none" /\ ~f.adjusted
            /\ f.pc = "ret" => f.ret = "None"

C3_Witness ==
    \E f \in CalcFrames :
        /\ f.w = 0 /\ f.pc = "ret" /\ f.ret = "None"
        /\ Center(wBottom - wTop, lineH) > 0
        /\ f.rgTop = f.pTop /\ dcOut = 0


\* C4: every WM_SIZE delivered to the hook is followed by a WM_NCCALCSIZE
\* and a WM_NCPAINT for the control (owed empties again), and both have
\* been seen by the time the dispatch is back at the message loop, which
\* is when the next frame can be shown.
C4_ResizeRoundTrip ==
    /\ [](Idle => owed = {})
    /\ (owed # {}) ~> (owed = {})

C4_Witness ==
    /\ ~Idle /\ Top.k = "hook" /\ Top.msg = "WM_SIZE" /\ Top.pc = "ret"
    /\ owed = {}
    /\ stack[1].by = "set_size"

\* C5 as stated: every execution of the WM_NCCALCSIZE arm reads, through
\* GetWindowRect, the height of the rectangle it is laying out.
C5_NeverStale ==
    \A f \in CalcFrames : f.adjusted => f.wh = f.pBot - f.pTop

\* the size calculations sent by the position update the WM_SIZE arm makes
ForcedCalcFrames ==
    {stack[i] : i \in {j \in 2..Len(stack) :
                          /\ stack[j].k = "hook"
                          /\ stack[j].msg = "WM_NCCALCSIZE"
                          /\ stack[j - 1].by = "WM_SIZE"}}

\* C5 amended: the size calculation a resize itself sends runs before the
\* window rectangle is updated and may read the height from before the
\* resize; every size calculation forced by the WM_SIZE arm reads the
\* height of the rectangle it lays out, and when the WM_SIZE arm returns,
\* its update done, the client rectangle in effect was computed by the hook
\* from the current window height.
C5_FreshAfterSize ==
    /\ \A f \in ForcedCalcFrames :
           f.adjusted => f.wh = f.pBot - f.pTop /\ f.wh = wBottom - wTop
    /\ (~Idle /\ Top.k = "hook" /\ Top.msg = "WM_SIZE" /\ Top.pc = "ret") =>
           laid.hook /\ laid.wh = wBottom - wTop

C5_Witness ==
    /\ ~Idle /\ Top.k = "hook" /\ Top.msg = "WM_SIZE" /\ Top.pc = "ret"
    /\ Len(stack) = 2 /\ stack[1].by = "set_size"
    /\ stack[1].calc.hook /\ stack[1].calc.wh # wBottom - wTop
    /\ laid.hook /\ laid.wh = wBottom - wTop

C7_FillColour ==
    \A f \in PaintFrames :
        f.filled =>
            f.colour = IF bg = None
                       THEN [sys |-> TRUE, value |-> COLOR_WINDOW]
                       ELSE [sys |-> FALSE, value |-> RGB(bg)]

\* C8: the device contexts outstanding are exactly those held by closure
\* invocations in progress, each between its GetDC and its ReleaseDC; none
\* is outstanding when the closure returns or when no handler runs; a
\* context is released only with its original font selected back.
C8_DcPaired ==
    /\ dcOut = Cardinality({i \in 1..Len(stack) :
                               stack[i].k = "hook" /\ stack[i].dc = "held"})
    /\ Idle => dcOut = 0
    /\ \A f \in Frames :
           f.k = "hook" =>
               /\ f.pc = "ret" => f.dc # "held"
               /\ f.dc = "released" => ~f.sel

C8_Witness ==
    /\ ~Idle /\ Top.k = "hook" /\ Top.pc = "ret" /\ Top.dc = "released"
    /\ dcOut = 0

\* C9: every window build created is destroyed exactly once and every hook
\* registration build made is removed exactly once, at teardown of the
\* object; never more than once; a hook is registered only for a window
\* that was created.
C9_ExactlyOnce ==
    /\ \A i \in Windows : nDestroyed[i] <= 1 /\ nUnbound[i] <= 1
    /\ \A i \in Windows : (i \in bound \/ nUnbound[i] > 0) => i <= nBuilt
    /\ dropped => \A i \in 1..nBuilt : nDestroyed[i] = 1 /\ nUnbound[i] = 1
    /\ ~dropped => \A i \in 1..nBuilt : i \in live /\ i \in bound

\* C10: a notification whose GetDC failed skips its step: the rectangle is
\* not adjusted from the failed measurement, and no fill is attempted.
C10_FailedDcSkips ==
    /\ \A f \in CalcFrames :
           f.dc = "null" => ~f.adjusted /\ f.rgTop = f.pTop /\ f.rgBot = f.pBot
    /\ \A f \in PaintFrames : f.dc = "null" => ~f.attempted


\* C11: the re-layout loop reaches a fixed point: a size calculation forced
\* by the WM_SIZE arm on a layout the hook already made for the same window
\* height and font yields the client rectangle already in effect, so no
\* further WM_SIZE follows it.
C11_RelayoutFixedPoint ==
    (/\ ~Idle /\ Top.k = "pos" /\ Top.by = "WM_SIZE" /\ Top.pc = "commit"
     /\ Top.calc.hook
     /\ laid.hook /\ laid.wh = Top.calc.wh /\ laid.ch = lineH) =>
        DefaultClient(Top.rgTop, Top.rgBot) = [top |-> cTop, bottom |-> cBottom]

====
